---- MODULE Spec2Model ----
(***************************************************************************)
(* Model of src/Converter.py: the Jenkins declarative pipeline to GitHub   *)
(* Actions converter (find_block, the extractors, convert_jenkins_to_gha,  *)
(* save_composite_actions and main).                                       *)
(*                                                                         *)
(* Text is a sequence of tokens.  A token is a record [t, v]: t is the     *)
(* token's kind and v the sequence of its character chunks.  A chunk is a  *)
(* maximal run of alphanumeric characters ("Pipeline", "A", "make") or one *)
(* separator character (" ", "-", "_", ".").  White space between tokens   *)
(* is not represented: the code skips it wherever tokens meet.             *)
(*   "w"     a bare word            agent, any, stages, sh, ...            *)
(*   "{" "}" a brace                                                       *)
(*   "stage" a stage header         stage('<v>')                           *)
(*   "str"   a quoted string        '<v>'                                  *)
(*   "kv"    an environment line    <v[1]> = '<v[2]>'                      *)
(*   "call"  a call with no string  cleanWs()                              *)
(*   "arch"  archiveArtifacts(artifacts: '<v>')                            *)
(*   "mail"  mail to: '<v>'                                                *)
(*   "str3"  a triple-quoted string, one chunk per line                    *)
(*   "param" a parameter            <v[1]>(name: '<v[2]>', ...)            *)
(*           without a name when v[2] = ""; v[3] is the default value, or   *)
(*           v[3], v[4], ... the choices                                    *)
(*   "cron"  a cron trigger         cron('<v>')                             *)
(*   "comment" a line or block comment                                     *)
(***************************************************************************)
EXTENDS Integers, Sequences, FiniteSets, TLC

VARIABLES
    text,           \* main: jenkins_text, the input document
    pc,             \* position of main(): start, stages, save, write, done, failed
    global_agent,   \* convert_jenkins_to_gha: global_agent
    global_env,     \* convert_jenkins_to_gha: global_env
    pipeline_post,  \* convert_jenkins_to_gha: pipeline_post
    stages_list,    \* convert_jenkins_to_gha: the stages the loop has yet to process
    stages_info,    \* convert_jenkins_to_gha: stages_info
    last_job_ids,   \* convert_jenkins_to_gha: last_job_ids
    prev_job_id,    \* convert_jenkins_to_gha: prev_job_id
    gha,            \* convert_jenkins_to_gha: gha (env and the ordered job map)
    action_paths,   \* save_composite_actions: action_paths
    files,          \* the output directory: path -> document
    writes,         \* the paths written so far, in order
    exit_code,      \* sys.exit status of main(); -1 while running
    stdout,         \* main: the lines printed so far
    src             \* the pipeline as written, of which text is the rendering

vars == <<src, text, pc, global_agent, global_env, pipeline_post, stages_list,
          stages_info, last_job_ids, prev_job_id, gha, action_paths, files, writes,
          exit_code, stdout>>

--------------------------------------------------------------------------
(* Bounds of the checked inputs *)

MaxStages == 3      \* top-level stages of a generated pipeline
MaxPar == 2         \* children of a generated parallel group

--------------------------------------------------------------------------
(* Tokens and characters *)

Tok(t, v) == [t |-> t, v |-> v]
W(word) == Tok("w", <<word>>)
LB == Tok("{", <<>>)
RB == Tok("}", <<>>)
Str(v) == Tok("str", v)

Separators == {" ", "-", "_", ".", "/", ":"}
IsAlnum(c) == c \notin Separators

\* str.lower() on one chunk
Lower(c) ==
    CASE c = "A" -> "a"
      [] c = "B" -> "b"
      [] c = "C" -> "c"
      [] c = "P" -> "p"
      [] c = "Q" -> "q"
      [] c = "U" -> "u"
      [] c = "V" -> "v"
      [] c = "X" -> "x"
      [] c = "Y" -> "y"
      [] c = "Z" -> "z"
      [] c = "K" -> "k"
      [] c = "J" -> "j"
      [] c = "Pipeline" -> "pipeline"
      [] c = "Post" -> "post"
      [] c = "Ubuntu" -> "ubuntu"
      [] c = "Mac" -> "mac"
      [] OTHER -> c

LowerSeq(s) == [i \in 1..Len(s) |-> Lower(s[i])]

RECURSIVE Join(_)
Join(s) == IF s = <<>> THEN "" ELSE Head(s) \o Join(Tail(s))

RECURSIVE LStrip(_, _)
LStrip(s, drop) ==
    IF s # <<>> /\ Head(s) \in drop THEN LStrip(Tail(s), drop) ELSE s

RECURSIVE RStrip(_, _)
RStrip(s, drop) ==
    IF s # <<>> /\ s[Len(s)] \in drop THEN RStrip(SubSeq(s, 1, Len(s) - 1), drop) ELSE s

\* str.strip(): leading and trailing white space removed
Strip(s) == RStrip(LStrip(s, {" "}), {" "})

\* Python slice text[s:e] for 0 <= s <= e
Slice(s, from, to) == SubSeq(s, from + 1, to)

--------------------------------------------------------------------------
(* find_block *)

NotFound == <<-1, -1>>

\* re.search(r"\b<kw>\b", token): kw stands as a whole word in the token
HasWord(tok, kw) ==
    \E i \in 1..Len(tok.v) :
        /\ tok.v[i] = kw
        /\ (i > 1 => tok.v[i - 1] # "_")
        /\ (i < Len(tok.v) => tok.v[i + 1] # "_")

\* the least element of a set of positions, 0 for the empty set
First(S) == IF S = {} THEN 0 ELSE CHOOSE i \in S : \A j \in S : i <= j

\* re.search: the first token from position i on that holds the keyword, 0 if none
FirstMatch(s, kw, i) == First({k \in i..Len(s) : HasWord(s[k], kw)})

\* a depth that counts the closing braces alone
DepthAtIgnoringOpen(s, i, d, j) ==
    d - Cardinality({k \in i..(j - 1) : s[k].t = "}"})

\* the while loop of find_block: index of the brace closing the block, 0 if none
\* depth when the loop reaches position j, having started at i with depth d
DepthAt(s, i, d, j) ==
    d + Cardinality({k \in i..(j - 1) : s[k].t = "{"})
      - Cardinality({k \in i..(j - 1) : s[k].t = "}"})

ScanClose(s, i, depth) ==
    First({j \in i..Len(s) : s[j].t = "}" /\ DepthAt(s, i, depth, j) = 0})

\* Only the first occurrence of the keyword is looked at.  An occurrence inside a
\* quoted string, a stage name or an environment line is followed by the rest of
\* that token, never by "{".
find_block(s, kw) ==
    LET k == FirstMatch(s, kw, 1) IN
    IF k = 0 THEN NotFound
    ELSE IF s[k].t # "w" THEN NotFound
    ELSE IF k + 1 > Len(s) \/ s[k + 1].t # "{" THEN NotFound
    ELSE LET c == ScanClose(s, k + 2, 0) IN
         IF c = 0 THEN NotFound ELSE <<k + 1, c - 1>>

Found(span) == span[1] # -1

\* body[s:e] of a found span
Body(s, span) == Slice(s, span[1], span[2])

--------------------------------------------------------------------------
(* Names *)

\* re.sub(r"[^a-zA-Z0-9]+", "-", s): every run of other characters becomes one "-"
RECURSIVE CollapseRuns(_)
CollapseRuns(s) ==
    IF s = <<>> THEN <<>>
    ELSE IF IsAlnum(Head(s)) THEN <<Head(s)>> \o CollapseRuns(Tail(s))
    ELSE <<"-">> \o CollapseRuns(LStrip(s, Separators))

gha_job_id(name) ==
    LET slug == Join(LowerSeq(RStrip(LStrip(CollapseRuns(Strip(name)), {"-"}), {"-"})))
    IN IF slug # "" THEN slug ELSE "job"

\* re.sub(r'[^a-zA-Z0-9_-]', '_', name.strip()): one "_" per other character
sanitize_name(name) ==
    LET s == Strip(name) IN
    Join([i \in 1..Len(s) |->
            IF IsAlnum(s[i]) \/ s[i] \in {"_", "-"} THEN s[i] ELSE "_"])

--------------------------------------------------------------------------
(* Agents *)

NoAgent == [type |-> "", label |-> <<>>, image |-> "", args |-> ""]

\* first match of  <kw>\s+['"]([^'"]+)['"] : the index of the string token, 0 if none
FirstKwStr(s, kw, i) ==
    First({k + 1 : k \in {j \in i..(Len(s) - 1) :
                            s[j] = W(kw) /\ s[j + 1].t = "str" /\ s[j + 1].v # <<>>}})

\* m.group(1).strip() of such a match
StrOf(tok) == Join(Strip(tok.v))

\* the body of extract_global_agent and of extract_stage_agent after find_block
AgentFromBody(agent_body) ==
    IF \E i \in 1..Len(agent_body) : HasWord(agent_body[i], "any")
    THEN [NoAgent EXCEPT !.type = "any"]
    ELSE LET l == FirstKwStr(agent_body, "label", 1) IN
    IF l # 0
    THEN [NoAgent EXCEPT !.type = "label", !.label = Strip(agent_body[l].v)]
    ELSE LET d == find_block(agent_body, "docker") IN
    IF ~Found(d) THEN NoAgent
    ELSE LET docker_body == Body(agent_body, d)
             img == FirstKwStr(docker_body, "image", 1)
             args == FirstKwStr(docker_body, "args", 1)
         IN IF img = 0 THEN NoAgent
            ELSE [NoAgent EXCEPT !.type = "docker",
                                 !.image = StrOf(docker_body[img]),
                                 !.args = IF args # 0 THEN StrOf(docker_body[args]) ELSE ""]

extract_global_agent(pipeline_body) ==
    LET b == find_block(pipeline_body, "agent") IN
    IF ~Found(b) THEN NoAgent ELSE AgentFromBody(Body(pipeline_body, b))

extract_stage_agent(stage_body) ==
    LET b == find_block(stage_body, "agent") IN
    IF ~Found(b) THEN NoAgent ELSE AgentFromBody(Body(stage_body, b))

\* runs-on is a sequence: <<"ubuntu-latest">>, or <<"self-hosted", label>>
map_label_to_runs_on(label) ==
    LET normalized == Join(LowerSeq(Strip(label))) IN
    IF normalized \in {"ubuntu", "ubuntu-latest"} THEN <<"ubuntu-latest">>
    ELSE IF normalized \in {"windows", "windows-latest"} THEN <<"windows-latest">>
    ELSE IF normalized \in {"mac", "macos", "macos-latest"} THEN <<"macos-latest">>
    ELSE <<"self-hosted", Join(label)>>

--------------------------------------------------------------------------
(* Environment and pipeline structure *)

\* A Python dict is [keys, val]: the keys in insertion order and the mapping.
\* d[k] = v keeps the position of a key already present.
Put(f, k, v) == [x \in DOMAIN f \cup {k} |-> IF x = k THEN v ELSE f[x]]
EmptyMap == [x \in {} |-> ""]
EmptyDict == [keys |-> <<>>, val |-> EmptyMap]
Has(d, k) == k \in DOMAIN d.val
DPut(d, k, v) ==
    [keys |-> IF Has(d, k) THEN d.keys ELSE Append(d.keys, k),
     val |-> Put(d.val, k, v)]

RECURSIVE EnvFold(_, _, _)
EnvFold(s, i, env) ==
    IF i > Len(s) THEN env
    ELSE IF s[i].t = "kv" THEN EnvFold(s, i + 1, DPut(env, s[i].v[1], s[i].v[2]))
    ELSE EnvFold(s, i + 1, env)

extract_env_kv(env_body) == EnvFold(env_body, 1, EmptyDict)

\* next  stage('<name>') {  at or after i, 0 if none
NextStage(s, i) ==
    First({k \in i..(Len(s) - 1) :
             s[k].t = "stage" /\ s[k].v # <<>> /\ s[k + 1].t = "{"})

RECURSIVE SplitFrom(_, _)
SplitFrom(s, i) ==
    LET h == NextStage(s, i) IN
    IF h = 0 THEN <<>>
    ELSE LET c == ScanClose(s, h + 2, 0) IN
         IF c = 0 THEN <<>>
         ELSE <<[name |-> s[h].v, content |-> SubSeq(s, h + 2, c - 1)]>>
              \o SplitFrom(s, c + 1)

split_stages(stages_body) == SplitFrom(stages_body, 1)

extract_stage_when_branch(stage_body) ==
    LET b == find_block(stage_body, "when") IN
    IF ~Found(b) THEN ""
    ELSE LET when_body == Body(stage_body, b)
             m == FirstKwStr(when_body, "branch", 1)
         IN IF m # 0 THEN Join(when_body[m].v) ELSE ""

extract_stage_environment(stage_body) ==
    LET b == find_block(stage_body, "environment") IN
    IF ~Found(b) THEN EmptyDict ELSE extract_env_kv(Body(stage_body, b))

\* a triple-quoted string token holds one chunk per line, already stripped
multiline_to_commands(lines) == SelectSeq(lines, LAMBDA ln : ln # "")

\* the commands of every triple-quoted sh statement of the zone, in order
RECURSIVE TripleCmds(_, _)
TripleCmds(s, i) ==
    IF i + 1 > Len(s) THEN <<>>
    ELSE IF s[i] = W("sh") /\ s[i + 1].t = "str3"
         THEN multiline_to_commands(s[i + 1].v) \o TripleCmds(s, i + 2)
    ELSE TripleCmds(s, i + 1)

\* the command of every  <kw> '...'  of the zone, in order
RECURSIVE QuotedCmds(_, _, _, _)
QuotedCmds(s, kw, prefix, i) ==
    IF i + 1 > Len(s) THEN <<>>
    ELSE IF s[i] = W(kw) /\ s[i + 1].t = "str" /\ s[i + 1].v # <<>>
         THEN <<prefix \o StrOf(s[i + 1])>> \o QuotedCmds(s, kw, prefix, i + 2)
    ELSE QuotedCmds(s, kw, prefix, i + 1)

extract_steps_commands(stage_body) ==
    LET b == find_block(stage_body, "steps")
        zone == IF Found(b) THEN Body(stage_body, b) ELSE stage_body
    IN TripleCmds(zone, 1) \o QuotedCmds(zone, "sh", "", 1)
       \o QuotedCmds(zone, "echo", "echo ", 1)

--------------------------------------------------------------------------
(* post blocks *)

PostKinds == <<"always", "success", "failure", "cleanup">>

FirstOfKind(s, t, i) == First({k \in i..Len(s) : s[k].t = t})

NoData == [archive |-> <<>>, commands |-> <<>>, mail_to |-> <<>>]

NoPost == [k \in {} |-> NoData]

\* _collect: an absent key of data is an empty sequence
PostCollect(post_body, kind) ==
    LET b == find_block(post_body, kind) IN
    IF ~Found(b) THEN NoData
    ELSE LET kbody == Body(post_body, b)
             a == FirstOfKind(kbody, "arch", 1)
             m == FirstOfKind(kbody, "mail", 1)
         IN [archive |-> IF a # 0 THEN <<StrOf(kbody[a])>> ELSE <<>>,
             commands |-> QuotedCmds(kbody, "sh", "", 1) \o TripleCmds(kbody, 1)
                          \o QuotedCmds(kbody, "echo", "echo ", 1),
             mail_to |-> IF m # 0 THEN <<StrOf(kbody[m])>> ELSE <<>>]

\* a dictionary kind -> data holding the kinds whose data is not empty
extract_post_body(body) ==
    LET b == find_block(body, "post") IN
    IF ~Found(b) THEN NoPost
    ELSE LET post_body == Body(body, b)
             kinds == {PostKinds[i] : i \in 1..Len(PostKinds)}
         IN [k \in {x \in kinds : PostCollect(post_body, x) # NoData}
                |-> PostCollect(post_body, k)]

extract_stage_post(stage_body) == extract_post_body(stage_body)

extract_pipeline_post(pipeline_body) == extract_post_body(pipeline_body)

extract_parallel(stage_body) ==
    LET b == find_block(stage_body, "parallel") IN
    IF ~Found(b) THEN <<>> ELSE split_stages(Body(stage_body, b))

--------------------------------------------------------------------------
(* Composite actions *)

\* env_key.lower().replace('_', '-'); an environment key is one chunk
InputKey(env_key) == IF env_key = "_" THEN "-" ELSE Lower(env_key)

NoStep == [name |-> "", cond |-> "", run |-> "", uses |-> "",
           with |-> EmptyDict, env |-> EmptyDict]

\* {k: "${{ <scope>.<...> }}" for k in stage_env.keys()}, keyed by key(k)
RECURSIVE RefDict(_, _, _, _)
RefDict(keys, scope, inputKeyed, i) ==
    IF i = 0 THEN EmptyDict
    ELSE LET k == keys[i] IN
         IF inputKeyed
         THEN DPut(RefDict(keys, scope, inputKeyed, i - 1), InputKey(k),
                   "${{ " \o scope \o "." \o k \o " }}")
         ELSE DPut(RefDict(keys, scope, inputKeyed, i - 1), k,
                   "${{ " \o scope \o "." \o InputKey(k) \o " }}")

\* action_def["inputs"]: one entry per input key, the default of the last key wins
RECURSIVE ActionInputs(_, _)
ActionInputs(stage_env, i) ==
    IF i = 0 THEN EmptyDict
    ELSE DPut(ActionInputs(stage_env, i - 1), InputKey(stage_env.keys[i]),
              [description |-> "Environment variable " \o stage_env.keys[i],
               default |-> stage_env.val[stage_env.keys[i]]])

\* CommandStep with the command shell-quoted
CommandStepQuoted(i, cmd, stage_env) ==
    [NoStep EXCEPT !.name = "Run command " \o ToString(i),
                   !.run = "'" \o cmd \o "'",
                   !.env = RefDict(stage_env.keys, "inputs", FALSE, Len(stage_env.keys))]

CommandStep(i, cmd, stage_env) ==
    [NoStep EXCEPT !.name = "Run command " \o ToString(i),
                   !.run = cmd,
                   !.env = RefDict(stage_env.keys, "inputs", FALSE, Len(stage_env.keys))]

\* the steps of one kind of a stage's post block
PostSteps(stage_name, kind, pdata) ==
    (IF pdata.archive # <<>>
     THEN <<[NoStep EXCEPT !.name = "Upload artifacts (" \o kind \o ")",
                           !.cond = kind \o "()",
                           !.uses = "actions/upload-artifact@v4",
                           !.with = DPut(DPut(EmptyDict, "name",
                                sanitize_name(stage_name) \o "-" \o kind \o "-artifacts"),
                                "path", pdata.archive[1])]>>
     ELSE <<>>)
    \o [i \in 1..Len(pdata.commands) |->
          [NoStep EXCEPT !.name = "Post " \o kind,
                         !.cond = kind \o "()",
                         !.run = pdata.commands[i]]]

\* the kinds generate_composite_action emits steps for
ActionPostKinds == <<"always", "success", "failure">>

RECURSIVE PostStepsOfKinds(_, _, _, _)
PostStepsOfKinds(stage_name, post_info, kinds, i) ==
    IF i > Len(kinds) THEN <<>>
    ELSE (IF kinds[i] \in DOMAIN post_info
          THEN PostSteps(stage_name, kinds[i], post_info[kinds[i]])
          ELSE <<>>)
         \o PostStepsOfKinds(stage_name, post_info, kinds, i + 1)

generate_composite_action(stage_name, commands, stage_env, stage_agent, post_info) ==
    [name |-> Join(stage_name) \o " Action",
     inputs |-> ActionInputs(stage_env, Len(stage_env.keys)),
     steps |-> [i \in 1..Len(commands) |-> CommandStep(i, commands[i], stage_env)]
               \o PostStepsOfKinds(stage_name, post_info, ActionPostKinds, 1)]

\* the directory of a stage's bundle
ActionPath(stage_name) ==
    "./.github/actions/" \o sanitize_name(LowerSeq(stage_name))

ActionFile(stage_name) == ActionPath(stage_name) \o "/action.yml"

WorkflowFile == ".github/workflows/ci.yml"

--------------------------------------------------------------------------
(* convert_jenkins_to_gha: extraction *)

\* the "comment" tokens are the block and line comments of the text
strip_comments(s) == SelectSeq(s, LAMBDA tok : tok.t # "comment")

PipelineSpan(s) == find_block(strip_comments(s), "pipeline")
PipelineBody(s) == Body(strip_comments(s), PipelineSpan(s))
StagesSpan(s) == find_block(PipelineBody(s), "stages")

\* the two ValueErrors of convert_jenkins_to_gha
ConvertRaises(s) ==
    IF ~Found(PipelineSpan(s)) THEN TRUE ELSE ~Found(StagesSpan(s))

\* the declarations  <kw>(name: '...' ...)  of the zone, in order
ParamsOfKind(s, kw) ==
    SelectSeq(s, LAMBDA tok : tok.t = "param" /\ tok.v[1] = kw /\ tok.v[2] # "")

\* params[name] of one declaration; no declaration of the inputs has a description
ParamInfo(tok) ==
    CASE tok.v[1] = "string" ->
            [type |-> "string", default |-> tok.v[3], description |-> "", options |-> <<>>]
      [] tok.v[1] = "booleanParam" ->
            [type |-> "boolean", default |-> IF tok.v[3] = "true" THEN "true" ELSE "false",
             description |-> "", options |-> <<>>]
      [] tok.v[1] = "choice" ->
            [type |-> "choice", default |-> IF Len(tok.v) >= 3 THEN tok.v[3] ELSE "",
             description |-> "", options |-> SubSeq(tok.v, 3, Len(tok.v))]

RECURSIVE PutParams(_, _)
PutParams(params, decls) ==
    IF decls = <<>> THEN params
    ELSE PutParams(DPut(params, Head(decls).v[2], ParamInfo(Head(decls))), Tail(decls))

extract_parameters(pipeline_body) ==
    LET b == find_block(pipeline_body, "parameters") IN
    IF ~Found(b) THEN EmptyDict
    ELSE LET param_body == Body(pipeline_body, b) IN
         PutParams(PutParams(PutParams(EmptyDict,
                                       ParamsOfKind(param_body, "string")),
                             ParamsOfKind(param_body, "booleanParam")),
                   ParamsOfKind(param_body, "choice"))

\* lines 457-482: one workflow input per parameter
workflow_inputs(parameters) ==
    [keys |-> parameters.keys,
     val |-> [name \in {parameters.keys[i] : i \in 1..Len(parameters.keys)} |->
                [description |-> IF parameters.val[name].description # ""
                                 THEN parameters.val[name].description
                                 ELSE "Parameter " \o name,
                 required |-> FALSE,
                 default |-> parameters.val[name].default,
                 type |-> parameters.val[name].type,
                 options |-> parameters.val[name].options]]]

\* gha["on"]: each trigger with its branches, or with the names of its inputs
WorkflowOn(inputs) ==
    LET base == DPut(DPut(EmptyDict, "push", <<"master", "main">>), "pull_request", <<>>)
    IN IF inputs.keys # <<>> THEN DPut(base, "workflow_dispatch", inputs.keys) ELSE base

GlobalEnvOf(pipeline_body) ==
    LET b == find_block(pipeline_body, "environment") IN
    IF Found(b) THEN extract_env_kv(Body(pipeline_body, b)) ELSE EmptyDict

StagesListOf(pipeline_body) ==
    split_stages(Body(pipeline_body, find_block(pipeline_body, "stages")))

UbuntuLatest == <<"ubuntu-latest">>

default_runs_on(agent) ==
    IF agent.type = "label" THEN map_label_to_runs_on(agent.label) ELSE UbuntuLatest

\* a container is <<>> (None) or one record; options "" when the agent has no args
ContainerOf(agent) == <<[image |-> agent.image, options |-> agent.args]>>

default_container(agent) ==
    IF agent.type = "docker" THEN ContainerOf(agent) ELSE <<>>

--------------------------------------------------------------------------
(* convert_jenkins_to_gha: the job graph *)

compute_job_env(stage_env, genv) ==
    IF stage_env.keys = <<>> THEN EmptyDict
    ELSE IF genv.keys = <<>> THEN stage_env
    ELSE LET keep == SelectSeq(stage_env.keys,
                        LAMBDA k : ~Has(genv, k) \/ genv.val[k] # stage_env.val[k])
         IN [keys |-> keep,
             val |-> [k \in {keep[i] : i \in 1..Len(keep)} |-> stage_env.val[k]]]

Checkout == [NoStep EXCEPT !.uses = "actions/checkout@v4"]

\* origin is not a key of the job: it records the entry of stages_info the job
\* was built from (0 for the pipeline-post job)
NoJob == [name |-> "", runs_on |-> <<>>, container |-> <<>>, env |-> EmptyDict,
          cond |-> "", needs |-> <<>>, steps |-> <<Checkout>>, origin |-> 0]

apply_agent_to_job(job_def, stage_agent, gagent) ==
    IF stage_agent.type = ""
    THEN [job_def EXCEPT !.runs_on = default_runs_on(gagent),
                         !.container = default_container(gagent)]
    ELSE IF stage_agent.type = "any"
    THEN [job_def EXCEPT !.runs_on = UbuntuLatest]
    ELSE IF stage_agent.type = "label"
    THEN [job_def EXCEPT !.runs_on = map_label_to_runs_on(stage_agent.label)]
    ELSE IF stage_agent.type = "docker"
    THEN [job_def EXCEPT !.runs_on = UbuntuLatest,
                         !.container = ContainerOf(stage_agent)]
    ELSE job_def

\* stages_info.append({...})
StageInfo(name, body) ==
    [name |-> name,
     commands |-> extract_steps_commands(body),
     env |-> extract_stage_environment(body),
     agent |-> extract_stage_agent(body),
     post |-> extract_stage_post(body)]

IfCond(body) ==
    LET branch == extract_stage_when_branch(body) IN
    IF branch # "" THEN "github.ref == 'refs/heads/" \o branch \o "'" ELSE ""

\* the job_def of one stage, sequential or parallel child; needs is a sequence of
\* job ids (a single id is a sequence of one)
StageJob(body, needs, genv, gagent, origin) ==
    [apply_agent_to_job(NoJob, extract_stage_agent(body), gagent) EXCEPT
        !.env = compute_job_env(extract_stage_environment(body), genv),
        !.cond = IfCond(body),
        !.needs = needs,
        !.origin = origin]

\* Upstream with prev_job_id forgotten
UpstreamLastOnly(prev, last) ==
    IF last # <<>> THEN <<last[Len(last)]>> ELSE <<>>

\* upstream = prev_job_id or (last_job_ids[-1] if last_job_ids else None)
Upstream(prev, last) ==
    IF prev # "" THEN <<prev>>
    ELSE IF last # <<>> THEN <<last[Len(last)]>>
    ELSE <<>>

\* SequentialNeeds with the elif branch dropped
SequentialNeedsNoChain(prev, last) ==
    IF last # <<>> THEN last ELSE <<>>

\* needs of a sequential stage
SequentialNeeds(prev, last) ==
    IF last # <<>> THEN last
    ELSE IF prev # "" THEN <<prev>>
    ELSE <<>>

\* The loop state st: jobs (gha["jobs"]), info (stages_info), last (last_job_ids),
\* prev (prev_job_id).
LoopState == [jobs |-> gha.jobs, info |-> stages_info, last |-> last_job_ids,
              prev |-> prev_job_id]

\* one child of a parallel group
ParallelChild(st, sub, upstream, genv, gagent) ==
    [st EXCEPT
        !.info = Append(st.info, StageInfo(sub.name, sub.content)),
        !.jobs = DPut(st.jobs, gha_job_id(sub.name),
                      StageJob(sub.content, upstream, genv, gagent, Len(st.info) + 1))]

RECURSIVE ParallelLoop(_, _, _, _, _, _)
ParallelLoop(st, subs, i, upstream, genv, gagent) ==
    IF i > Len(subs) THEN st
    ELSE ParallelLoop(ParallelChild(st, subs[i], upstream, genv, gagent),
                      subs, i + 1, upstream, genv, gagent)

\* ProcessStage recording the names of a group's children in place of their job ids
ProcessStageLastByName(st, stage, genv, gagent) ==
    LET parallel_substages == extract_parallel(stage.content) IN
    IF parallel_substages # <<>>
    THEN [ParallelLoop(st, parallel_substages, 1, Upstream(st.prev, st.last),
                       genv, gagent) EXCEPT
            !.last = [i \in 1..Len(parallel_substages) |->
                        Join(parallel_substages[i].name)],
            !.prev = ""]
    ELSE LET job_id == gha_job_id(stage.name) IN
         [st EXCEPT
            !.info = Append(st.info, StageInfo(stage.name, stage.content)),
            !.jobs = DPut(st.jobs, job_id,
                          StageJob(stage.content, SequentialNeeds(st.prev, st.last),
                                   genv, gagent, Len(st.info) + 1)),
            !.last = <<>>,
            !.prev = job_id]

\* one iteration of  for stage in stages_list
ProcessStage(st, stage, genv, gagent) ==
    LET parallel_substages == extract_parallel(stage.content) IN
    IF parallel_substages # <<>>
    THEN [ParallelLoop(st, parallel_substages, 1, Upstream(st.prev, st.last),
                       genv, gagent) EXCEPT
            !.last = [i \in 1..Len(parallel_substages) |->
                        gha_job_id(parallel_substages[i].name)],
            !.prev = ""]
    ELSE LET job_id == gha_job_id(stage.name) IN
         [st EXCEPT
            !.info = Append(st.info, StageInfo(stage.name, stage.content)),
            !.jobs = DPut(st.jobs, job_id,
                          StageJob(stage.content, SequentialNeeds(st.prev, st.last),
                                   genv, gagent, Len(st.info) + 1)),
            !.last = <<>>,
            !.prev = job_id]

--------------------------------------------------------------------------
(* convert_jenkins_to_gha: composite steps and the pipeline-post job *)

create_job_steps_with_composite(stage_name, action_path, stage_env) ==
    <<Checkout,
      [NoStep EXCEPT !.name = "Run " \o Join(stage_name),
                     !.uses = action_path,
                     !.with = RefDict(stage_env.keys, "env", TRUE, Len(stage_env.keys))]>>

\* for i, job_key in enumerate(job_keys): if i < len(action_paths): ...
\* The keys of a dict are distinct: every iteration updates a job of its own.
UpdateJobSteps(jobs, paths) ==
    [jobs EXCEPT !.val =
        [job_key \in DOMAIN jobs.val |->
            LET i == CHOOSE n \in 1..Len(jobs.keys) : jobs.keys[n] = job_key IN
            IF i <= Len(paths)
            THEN [jobs.val[job_key] EXCEPT !.steps =
                    create_job_steps_with_composite(paths[i].name, paths[i].path,
                                                    paths[i].env)]
            ELSE jobs.val[job_key]]]

RECURSIVE JoinLines(_)
JoinLines(s) ==
    IF Len(s) = 0 THEN ""
    ELSE IF Len(s) = 1 THEN s[1]
    ELSE s[1] \o "\n" \o JoinLines(Tail(s))

PipelinePostSteps(kind, pdata) ==
    (IF pdata.archive # <<>>
     THEN <<[NoStep EXCEPT !.name = "Upload artifacts (" \o kind \o ")",
                           !.cond = kind \o "()",
                           !.uses = "actions/upload-artifact@v4",
                           !.with = DPut(DPut(EmptyDict, "name",
                                              "pipeline-" \o kind \o "-artifacts"),
                                         "path", pdata.archive[1])]>>
     ELSE <<>>)
    \o (IF pdata.commands # <<>>
        THEN <<[NoStep EXCEPT !.name = "Pipeline post " \o kind,
                              !.cond = kind \o "()",
                              !.run = JoinLines(pdata.commands)]>>
        ELSE <<>>)
    \o (IF pdata.mail_to # <<>>
        THEN <<[NoStep EXCEPT !.name = "Notify on " \o kind,
                              !.cond = kind \o "()",
                              !.run = "echo \"Replace with mail action to: "
                                      \o pdata.mail_to[1] \o "\""]>>
        ELSE <<>>)

RECURSIVE PostJobSteps(_, _)
PostJobSteps(ppost, i) ==
    IF i > Len(PostKinds) THEN <<>>
    ELSE (IF PostKinds[i] \in DOMAIN ppost
          THEN PipelinePostSteps(PostKinds[i], ppost[PostKinds[i]])
          ELSE <<>>)
         \o PostJobSteps(ppost, i + 1)

PipelinePostId == "pipeline-post"

\* lines 668-706: the final job that depends on all others
AddPipelinePost(jobs, ppost, gagent) ==
    LET post_job_steps == <<Checkout>> \o PostJobSteps(ppost, 1) IN
    IF DOMAIN ppost # {} /\ Len(post_job_steps) > 1
    THEN DPut(jobs, PipelinePostId,
              [NoJob EXCEPT !.name = "Pipeline Post",
                            !.runs_on = default_runs_on(gagent),
                            !.needs = SelectSeq(jobs.keys, LAMBDA k : k # PipelinePostId),
                            !.cond = "always()",
                            !.steps = post_job_steps,
                            !.container = default_container(gagent)])
    ELSE jobs

--------------------------------------------------------------------------
(* main and the steps of the conversion *)

\* a printed line: what it announces and the text that follows; the listing of
\* the generated bundles is one line holding their paths, whose order is the
\* directory's
Line(k, v) == [k |-> k, v |-> v, files |-> {}]

\* the message of the ValueError of convert_jenkins_to_gha
RaisedMessage(s) ==
    IF ~Found(PipelineSpan(s))
    THEN "Not a declarative Jenkins pipeline (no 'pipeline { ... }' found)."
    ELSE "No 'stages { ... }' found."

\* where main() stands once the loop has the stages rest left to process
AfterStages(rest) == IF rest = <<>> THEN "save" ELSE "stages"

\* convert_jenkins_to_gha up to the stage loop (lines 417-506)
Convert ==
    /\ pc = "start"
    /\ ~ConvertRaises(text)
    /\ \E pipeline_body \in {PipelineBody(text)} :
          /\ global_agent' = extract_global_agent(pipeline_body)
          /\ pipeline_post' = extract_pipeline_post(pipeline_body)
          /\ \E stages \in {StagesListOf(pipeline_body)} :
                /\ stages_list' = stages
                /\ pc' = AfterStages(stages)
          /\ \E workflow_env \in {GlobalEnvOf(pipeline_body)} :
             \E inputs \in {workflow_inputs(extract_parameters(pipeline_body))} :
                /\ global_env' = workflow_env
                /\ gha' = [on |-> WorkflowOn(inputs), inputs |-> inputs,
                           env |-> workflow_env, jobs |-> EmptyDict]
    /\ stdout' = Append(stdout, Line("Converting", ""))
    /\ UNCHANGED <<src, text, stages_info, last_job_ids, prev_job_id, action_paths,
                   files, writes, exit_code>>

\* one iteration of  for stage in stages_list  (lines 558-649)
ConvertStage ==
    /\ pc = "stages"
    /\ \E st \in {ProcessStage(LoopState, Head(stages_list), global_env, global_agent)} :
          /\ gha' = [gha EXCEPT !.jobs = st.jobs]
          /\ stages_info' = st.info
          /\ last_job_ids' = st.last
          /\ prev_job_id' = st.prev
    /\ stages_list' = Tail(stages_list)
    /\ pc' = AfterStages(Tail(stages_list))
    /\ UNCHANGED <<stdout, src, text, global_agent, global_env, pipeline_post, action_paths,
                   files, writes, exit_code>>

\* convert_jenkins_to_gha raises ValueError; main prints the error and exits 1
ConvertRaise ==
    /\ pc = "start"
    /\ ConvertRaises(text)
    /\ pc' = "failed"
    /\ exit_code' = 1
    /\ stdout' = stdout \o <<Line("Converting", ""), Line("Error", RaisedMessage(text))>>
    /\ UNCHANGED <<src, text, global_agent, global_env, pipeline_post, stages_list,
                   stages_info, last_job_ids, prev_job_id, gha, action_paths, files,
                   writes>>

\* one iteration of the loop of save_composite_actions
SaveAction ==
    /\ pc = "save"
    /\ Len(action_paths) < Len(stages_info)
    /\ LET stage_info == stages_info[Len(action_paths) + 1]
           action_def == generate_composite_action(stage_info.name, stage_info.commands,
                              stage_info.env, stage_info.agent, stage_info.post)
       IN /\ files' = Put(files, ActionFile(stage_info.name), action_def)
          /\ writes' = Append(writes, ActionFile(stage_info.name))
          /\ action_paths' = Append(action_paths,
                                [name |-> stage_info.name,
                                 path |-> ActionPath(stage_info.name),
                                 env |-> stage_info.env])
    /\ UNCHANGED <<stdout, src, text, pc, global_agent, global_env, pipeline_post, stages_list,
                   stages_info, last_job_ids, prev_job_id, gha, exit_code>>

\* a failing bundle write that is swallowed: the loop goes on to the next stage
SaveRaiseSwallowed ==
    /\ pc = "save"
    /\ Len(action_paths) < Len(stages_info)
    /\ LET stage_info == stages_info[Len(action_paths) + 1]
       IN action_paths' = Append(action_paths,
                                 [name |-> stage_info.name,
                                  path |-> ActionPath(stage_info.name),
                                  env |-> stage_info.env])
    /\ stdout' = Append(stdout, Line("Error", "OSError"))
    /\ UNCHANGED <<src, text, pc, global_agent, global_env, pipeline_post, stages_list,
                   stages_info, last_job_ids, prev_job_id, gha, files, writes,
                   exit_code>>

\* mkdir or open of a bundle raises OSError; main prints the error and exits 1
SaveRaise ==
    /\ pc = "save"
    /\ Len(action_paths) < Len(stages_info)
    /\ pc' = "failed"
    /\ exit_code' = 1
    /\ stdout' = Append(stdout, Line("Error", "OSError"))
    /\ UNCHANGED <<src, text, global_agent, global_env, pipeline_post, stages_list,
                   stages_info, last_job_ids, prev_job_id, gha, action_paths, files,
                   writes>>

\* convert_jenkins_to_gha after save_composite_actions (lines 654-708)
Assemble ==
    /\ pc = "save"
    /\ Len(action_paths) = Len(stages_info)
    /\ gha' = [gha EXCEPT !.jobs =
                 AddPipelinePost(UpdateJobSteps(gha.jobs, action_paths),
                                 pipeline_post, global_agent)]
    /\ pc' = "write"
    /\ UNCHANGED <<stdout, src, text, global_agent, global_env, pipeline_post, stages_list,
                   stages_info, last_job_ids, prev_job_id, action_paths, files, writes,
                   exit_code>>

\* main: yaml.dump(gha, f) into ci.yml, then the listing
WriteWorkflow ==
    /\ pc = "write"
    /\ files' = Put(files, WorkflowFile, gha)
    /\ writes' = Append(writes, WorkflowFile)
    /\ pc' = "done"
    /\ exit_code' = 0
    /\ stdout' = stdout \o <<Line("Main workflow saved to", WorkflowFile),
                            Line("Composite actions saved to", ".github/actions"),
                            [Line("Generated files", WorkflowFile)
                                EXCEPT !.files = DOMAIN files]>>
    /\ UNCHANGED <<src, text, global_agent, global_env, pipeline_post, stages_list,
                   stages_info, last_job_ids, prev_job_id, gha, action_paths>>

\* opening ci.yml raises OSError; main prints the error and exits 1
WriteRaise ==
    /\ pc = "write"
    /\ pc' = "failed"
    /\ exit_code' = 1
    /\ stdout' = Append(stdout, Line("Error", "OSError"))
    /\ UNCHANGED <<src, text, global_agent, global_env, pipeline_post, stages_list,
                   stages_info, last_job_ids, prev_job_id, gha, action_paths, files,
                   writes>>

--------------------------------------------------------------------------
(* The input documents.  src describes the pipeline as its author wrote it, *)
(* Render(src) is its text, and the conversion reads the text alone.        *)

Block(kw, body) == <<W(kw), LB>> \o body \o <<RB>>
StageBlock(name, body) == <<Tok("stage", name), LB>> \o body \o <<RB>>
Kv(k, v) == Tok("kv", <<k, v>>)

RECURSIVE Concat(_)
Concat(ss) == IF ss = <<>> THEN <<>> ELSE Head(ss) \o Concat(Tail(ss))

\* the dictionary an author means by the lines  k = 'v'
RECURSIVE DictOfPairs(_, _)
DictOfPairs(pairs, i) ==
    IF i = 0 THEN EmptyDict
    ELSE DPut(DictOfPairs(pairs, i - 1), pairs[i][1], pairs[i][2])

EnvBlock(pairs) ==
    IF pairs = <<>> THEN <<>>
    ELSE Block("environment", [i \in 1..Len(pairs) |-> Kv(pairs[i][1], pairs[i][2])])

\* an agent directive as written: "none" is no directive at all
AgentKinds == {"none", "any", "docker", "label", "kubernetes"}

\* where: "P" at pipeline level, "S" in a stage
AgentImage(where) == IF where = "P" THEN <<"node">> ELSE <<"py">>
AgentArgs(where) == IF where = "P" THEN <<"-v">> ELSE <<>>
AgentLabel(where) == IF where = "P" THEN <<"Mac">> ELSE <<"gpu">>

AgentTokens(kind, where) ==
    CASE kind = "none" -> <<>>
      [] kind = "any" -> <<W("agent"), W("any")>>
      [] kind = "docker" ->
            Block("agent", Block("docker",
                <<W("image"), Str(AgentImage(where))>>
                \o (IF AgentArgs(where) # <<>>
                    THEN <<W("args"), Str(AgentArgs(where))>> ELSE <<>>)))
      [] kind = "label" -> Block("agent", <<W("label"), Str(AgentLabel(where))>>)
      [] kind = "kubernetes" ->
            Block("agent", Block("kubernetes", <<W("yaml"), Str(<<"pod">>)>>))

\* a post block as written: "none", "echo" (always { echo '<word>' }),
\* "clean" (always { cleanWs() }), "mail" (failure { mail to: '<word>' })
\* "cleanup" (cleanup { echo '<word>' }),
\* "archive" (success { archiveArtifacts(artifacts: 'out')  sh 'pack <word>' })
PostForms == {"none", "echo", "clean", "mail"}
StagePostForms == PostForms \cup {"cleanup", "archive"}

PostTokens(form, word) ==
    CASE form = "none" -> <<>>
      [] form = "echo" -> Block("post", Block("always", <<W("echo"), Str(<<word>>)>>))
      [] form = "clean" -> Block("post", Block("always", <<Tok("call", <<"cleanWs">>)>>))
      [] form = "mail" -> Block("post", Block("failure", <<Tok("mail", <<word>>)>>))
      [] form = "cleanup" -> Block("post", Block("cleanup", <<W("echo"), Str(<<word>>)>>))
      [] form = "archive" ->
            Block("post", Block("success",
                <<Tok("arch", <<"out">>), W("sh"), Str(<<"pack", " ", word>>)>>))

\* a statement of a steps block as written:  sh '<v>',  echo '<v>',  or
\* sh '''<v[1]> / ... / <v[n]>'''  (q = 3, one chunk per line)
Stmt(kw, q, v) == [kw |-> kw, q |-> q, v |-> v]

StmtTokens(st) == <<W(st.kw), IF st.q = 3 THEN Tok("str3", st.v) ELSE Str(st.v)>>

\* A leaf stage as written: its name, agent directive, environment lines, branch
\* guard, the one sh command of its steps and its post block.  stmts, when not
\* empty, holds the statements of the steps block in place of the one sh command.
Leaf(name, agent, env, branch, cmd, post) ==
    [name |-> name, agent |-> agent, env |-> env, branch |-> branch,
     cmd |-> cmd, post |-> post, stmts |-> <<>>]

WithSteps(lf, stmts) == [lf EXCEPT !.cmd = <<>>, !.stmts = stmts]

\* the statements of a leaf's steps block in the order written
StatementsOf(lf) ==
    IF lf.stmts # <<>> THEN lf.stmts
    ELSE IF lf.cmd # <<>> THEN <<Stmt("sh", 1, lf.cmd)>>
    ELSE <<>>

LeafTokens(lf) ==
    StageBlock(lf.name,
        AgentTokens(lf.agent, "S")
        \o EnvBlock(lf.env)
        \o (IF lf.branch # <<>> THEN Block("when", <<W("branch"), Str(lf.branch)>>)
            ELSE <<>>)
        \o Block("steps", Concat([k \in 1..Len(StatementsOf(lf)) |->
                                     StmtTokens(StatementsOf(lf)[k])]))
        \o PostTokens(lf.post, "st"))

\* A top-level stage as written: a leaf (kids = <<>>), or a parent holding a
\* parallel group of leaves.  When inner is not empty the first child is no leaf:
\* it holds a parallel group of its own, the leaves inner.
ItemTokens(it) ==
    IF it.kids = <<>> THEN LeafTokens(it.leaf)
    ELSE StageBlock(it.leaf.name,
            Block("parallel",
                Concat([j \in 1..Len(it.kids) |->
                    IF j = 1 /\ it.inner # <<>>
                    THEN StageBlock(it.kids[1].name,
                            Block("parallel", Concat([n \in 1..Len(it.inner) |->
                                                        LeafTokens(it.inner[n])])))
                    ELSE LeafTokens(it.kids[j])])))

\* the pipeline block's body: agent, triggers, parameters, environment, stages, post
PipelineTokens(p) ==
    AgentTokens(p.agent, "P")
    \o (IF p.cron # <<>> THEN Block("triggers", <<Tok("cron", p.cron)>>) ELSE <<>>)
    \o (IF p.param # "" \/ p.decls # <<>>
        THEN Block("parameters",
                   (IF p.param # "" THEN <<Tok("param", <<"string", p.param, "all">>)>>
                    ELSE <<>>)
                   \o [k \in 1..Len(p.decls) |-> Tok("param", p.decls[k])])
        ELSE <<>>)
    \o EnvBlock(p.env)
    \o (IF p.stages
        THEN Block("stages", Concat([i \in 1..Len(p.items) |-> ItemTokens(p.items[i])]))
        ELSE <<>>)
    \o PostTokens(p.post, "bye")

\* the document: an optional  @Library('<lib>') _  line, a comment, and either a
\* declarative pipeline block or a scripted node block; a truncated file lacks its
\* last p.cut tokens
Render(p) ==
    LET whole ==
          (IF p.lib # <<>> THEN <<W("@Library"), Str(p.lib), W("_")>> ELSE <<>>)
          \o <<Tok("comment", <<"pipeline", " ", "{">>)>>
          \o (IF p.declarative THEN Block("pipeline", PipelineTokens(p))
              ELSE Block("node",
                         Concat([i \in 1..Len(p.items) |-> ItemTokens(p.items[i])])))
    IN SubSeq(whole, 1, Len(whole) - p.cut)

\* the leaves of a pipeline in document order: the sequential stages and the
\* children of the groups; a child that holds a nested group counts as one stage
\* here, and the stages nested in it are the item's inner
LeavesOf(items) ==
    Concat([i \in 1..Len(items) |->
              IF items[i].kids = <<>> THEN <<items[i].leaf>> ELSE items[i].kids])

--------------------------------------------------------------------------
(* The checked inputs *)

SeqNames == << <<"A">>, <<"B">>, <<"A", " ", "B">>, <<"a", "-", "b">>,
               <<"Pipeline", " ", "Post">> >>
ParentNames == << <<"P">>, <<"Q">> >>
ChildNames == << << <<"X">>, <<"Y">>, <<"Z">>, <<"C">> >>,
                 << <<"U">>, <<"V">>, <<"W">>, <<"D">> >> >>

PlainLeaf(name, cmd) == Leaf(name, "none", <<>>, <<>>, cmd, "none")

\* the choices for one top-level stage: a sequential stage named SeqNames[a], or
\* group a with its first n children
SeqChoices == [par : {FALSE}, a : 1..Len(SeqNames), n : {0}]
ItemChoices ==
    [par : {FALSE}, a : {1, 2}, n : {0}]
    \cup [par : {TRUE}, a : 1..Len(ParentNames), n : 1..MaxPar]

\* every stage runs a command of its own: step<position>
ItemAt(c, pos) ==
    IF c.par
    THEN [leaf |-> PlainLeaf(ParentNames[c.a], <<>>),
          kids |-> [j \in 1..c.n |->
                      PlainLeaf(ChildNames[c.a][j],
                                <<"step", ToString(pos), ".", ToString(j)>>)],
          inner |-> <<>>]
    ELSE [leaf |-> PlainLeaf(SeqNames[c.a], <<"step", ToString(pos)>>), kids |-> <<>>,
          inner |-> <<>>]

Pipeline(lib, declarative, agent, param, env, stages, items, post) ==
    [lib |-> lib, declarative |-> declarative, agent |-> agent, param |-> param,
     env |-> env, stages |-> stages, items |-> items, post |-> post,
     cron |-> <<>>, decls |-> <<>>, cut |-> 0]

\* a pipeline with a cron trigger and further parameter declarations
WithOptions(p, cron, decls) == [p EXCEPT !.cron = cron, !.decls = decls]

\* pipelines of up to MaxStages stages A, B and groups, with or without post hooks
GraphInputs ==
    {Pipeline(<<>>, TRUE, "none", "", <<>>, TRUE,
              [i \in 1..Len(x[1]) |-> ItemAt(x[1][i], i)], x[2]) :
        x \in UNION {[1..m -> ItemChoices] \X {"none", "echo"} : m \in 1..MaxStages}}

\* pipelines of up to MaxStages sequential stages of any name, with or without
\* post hooks
ChainInputs ==
    {Pipeline(<<>>, TRUE, "none", "", <<>>, TRUE,
              [i \in 1..Len(x[1]) |-> ItemAt(x[1][i], i)], x[2]) :
        x \in UNION {[1..m -> SeqChoices] \X {"none", "echo"} : m \in 1..MaxStages}}

StageEnvs == { << <<"K", "1">> >>, << <<"K", "2">> >>,
               << <<"K", "1">>, <<"J", "3">> >>,
               << <<"K", "1">>, <<"k", "2">> >> }

\* steps blocks of more than one statement
StepsForms ==
    { <<Stmt("sh", 1, <<"make">>), Stmt("sh", 3, <<"lint", "", "pack">>)>>,
      <<Stmt("sh", 3, <<"lint", "pack">>), Stmt("sh", 1, <<"make">>)>>,
      <<Stmt("echo", 1, <<"hi">>), Stmt("sh", 1, <<"make">>)>>,
      <<Stmt("sh", 1, <<"make">>), Stmt("echo", 1, <<"hi">>)>> }

\* stage A with one thing added to a plain stage
FeaturedLeaves ==
    {Leaf(<<"A">>, ag, <<>>, <<>>, <<"make">>, "none") : ag \in AgentKinds}
    \cup {Leaf(<<"A">>, "none", env, <<>>, <<"make">>, "none") : env \in StageEnvs}
    \cup {Leaf(<<"A">>, "none", <<>>, <<>>, <<"make">>, post) :
            post \in StagePostForms \ {"none"}}
    \cup {Leaf(<<"A">>, "none", <<>>, <<>>, <<"run", " ", "post">>, "none"),
          Leaf(<<"A">>, "none", <<>>, <<"main">>, <<"make">>, "none")}
    \cup {WithSteps(PlainLeaf(<<"A">>, <<>>), stmts) : stmts \in StepsForms}

LeafB == PlainLeaf(<<"B">>, <<"make", " ", "test">>)

Single(lf) == [leaf |-> lf, kids |-> <<>>, inner |-> <<>>]

\* two sequential stages, one of them featured, under every pipeline-level agent,
\* environment and post block
SectionInputs ==
    {Pipeline(<<>>, TRUE, x[1], "", x[2], TRUE, x[4], x[3]) :
        x \in (AgentKinds \ {"kubernetes"})
              \X {<<>>, << <<"K", "1">> >>}
              \X (PostForms \ {"clean"})
              \X UNION {{ <<Single(lf), Single(LeafB)>>, <<Single(LeafB), Single(lf)>> } :
                        lf \in FeaturedLeaves}}

\* documents with and without a pipeline block and a stages block
StructureInputs ==
    {Pipeline(x[1], x[2], "none", x[3], <<>>, x[4], <<Single(LeafB)>>, x[5]) :
        x \in {<<>>, <<"pipeline", "-", "lib">>}
              \X BOOLEAN \X {"", "stages"} \X BOOLEAN \X {"none", "echo"}}

\* parameter blocks: declarations of the three kinds, with and without a name
DeclForms ==
    { <<>>,
      << <<"string", "ENV", "dev">> >>,
      << <<"string", "", "dev">> >>,
      << <<"booleanParam", "", "true">>, <<"string", "ENV", "dev">> >>,
      << <<"string", "ENV", "dev">>, <<"choice", "", "a", "b">>,
         <<"booleanParam", "DEBUG", "true">> >>,
      << <<"booleanParam", "DEBUG", "false">>, <<"choice", "TIER", "a", "b">>,
         <<"string", "ENV", "">> >> }

CronForms == { <<>>, <<"H 2 * * *">> }

\* one stage under every parameters block, with and without a cron trigger
OptionInputs ==
    {WithOptions(Pipeline(<<>>, TRUE, "any", "", <<>>, TRUE, <<Single(LeafB)>>, x[3]),
                 x[1], x[2]) :
        x \in CronForms \X DeclForms \X {"none", "echo"}}

\* files that end early: one stage and a post block, the last tokens missing
TruncatedInputs ==
    {[Pipeline(<<>>, TRUE, "any", "", <<>>, TRUE, <<Single(LeafB)>>, "echo")
        EXCEPT !.cut = n] : n \in {1, 2, 3, 6}}

\* group P whose first child X holds the group U, V and whose second child is Y,
\* alone or followed by stage B
NestedInputs ==
    {Pipeline(<<>>, TRUE, "any", "", <<>>, TRUE,
              <<[leaf |-> PlainLeaf(<<"P">>, <<>>),
                 kids |-> <<PlainLeaf(<<"X">>, <<>>), PlainLeaf(<<"Y">>, <<"y">>)>>,
                 inner |-> <<PlainLeaf(<<"U">>, <<"u">>), PlainLeaf(<<"V">>, <<"v">>)>>]>>
              \o rest, "none") :
        rest \in {<<>>, <<Single(LeafB)>>}}

\* two stages of one slug, the first declaring an environment, alone or followed
\* by stage B, with and without an environment block of the pipeline
CollidingInputs ==
    {Pipeline(<<>>, TRUE, "any", "", x[1], TRUE,
              <<Single(Leaf(x[3][1], "none", x[2], <<>>, <<"make">>, "none")),
                Single(PlainLeaf(x[3][2], <<"step2">>))>> \o x[4], "none") :
        x \in {<<>>, << <<"K", "1">> >>}
              \X StageEnvs
              \X { << <<"A">>, <<"A">> >>, << <<"a", "-", "b">>, <<"A", " ", "B">> >> }
              \X {<<>>, <<Single(LeafB)>>}}

Inputs ==
    GraphInputs \cup ChainInputs \cup SectionInputs \cup StructureInputs
    \cup OptionInputs \cup TruncatedInputs \cup NestedInputs \cup CollidingInputs

NoGha == [on |-> EmptyDict, inputs |-> EmptyDict, env |-> EmptyDict, jobs |-> EmptyDict]

\* main() has checked its arguments and is about to read the input
Init ==
    /\ src \in Inputs
    /\ text = Render(src)
    /\ pc = "start"
    /\ global_agent = NoAgent
    /\ global_env = EmptyDict
    /\ pipeline_post = NoPost
    /\ stages_list = <<>>
    /\ stages_info = <<>>
    /\ last_job_ids = <<>>
    /\ prev_job_id = ""
    /\ gha = NoGha
    /\ action_paths = <<>>
    /\ files = EmptyMap
    /\ writes = <<>>
    /\ exit_code = -1
    /\ stdout = <<>>

Next ==
    \/ Convert
    \/ ConvertStage
    \/ ConvertRaise
    \/ SaveAction
    \/ SaveRaise
    \/ Assemble
    \/ WriteWorkflow
    \/ WriteRaise

Spec == Init /\ [][Next]_vars

--------------------------------------------------------------------------
(* Vocabulary of the properties *)

SetOf(s) == {s[i] : i \in 1..Len(s)}

\* the stage loop has run: gha holds the job map
Converted == pc \in {"save", "write", "done"}
\* the job map is complete: composite steps and pipeline-post job included
Emitted == pc \in {"write", "done"}

Jobs == gha.jobs.val
JobIds == DOMAIN gha.jobs.val

\* the leaf stages of the pipeline as written, in document order
Leaves == LeavesOf(src.items)
Slug(lf) == gha_job_id(lf.name)

\* the job built from leaf i is in the job map
HasJobOf(i) == \E k \in JobIds : Jobs[k].origin = i

OnlySequential == \A i \in 1..Len(src.items) : src.items[i].kids = <<>>
DistinctSlugs ==
    \A i, j \in 1..Len(Leaves) : i # j => Slug(Leaves[i]) # Slug(Leaves[j])

\* the pipeline block carries post hooks of its own
HasPipelineHooks == src.declarative /\ src.post \in {"echo", "mail"}

\* The entry of the job map under the slug of leaf i is the job of leaf i.  Once
\* the pipeline-post job is added it takes the place of a stage with that slug.
IsJobOfLeaf(i) ==
    /\ Slug(Leaves[i]) \in JobIds
    /\ Jobs[Slug(Leaves[i])].origin = i
       \/ /\ Emitted
          /\ Slug(Leaves[i]) = PipelinePostId
          /\ Jobs[PipelinePostId].origin = 0

NeedsOfLeaf(i) == Jobs[Slug(Leaves[i])].needs

--------------------------------------------------------------------------
(* C1 *)

--------------------------------------------------------------------------
(* C2 *)

IsGroup(it) == it.kids # <<>>

\* the index in Leaves of the first leaf of top-level stage i
RECURSIVE FirstLeaf(_)
FirstLeaf(i) ==
    IF i = 1 THEN 1
    ELSE FirstLeaf(i - 1)
         + (IF IsGroup(src.items[i - 1]) THEN Len(src.items[i - 1].kids) ELSE 1)

\* the indexes in Leaves of the leaves of top-level stage i
LeafIdx(i) ==
    IF IsGroup(src.items[i])
    THEN FirstLeaf(i)..(FirstLeaf(i) + Len(src.items[i].kids) - 1)
    ELSE {FirstLeaf(i)}

\* top-level stages i, i+1, i+2 are a sequential stage, a parallel group and a
\* sequential stage
SeqGroupSeq(i) ==
    /\ i + 2 <= Len(src.items)
    /\ ~IsGroup(src.items[i])
    /\ IsGroup(src.items[i + 1])
    /\ ~IsGroup(src.items[i + 2])

\* no parent of a parallel group shares its slug with a leaf
ParentsApart ==
    \A i \in 1..Len(src.items) :
        IsGroup(src.items[i]) =>
            \A l \in 1..Len(Leaves) : Slug(src.items[i].leaf) # Slug(Leaves[l])

\* C2: a sequential stage A, a parallel group X1..Xn and a sequential stage D, all
\* slugs distinct: every Xi needs exactly A, no Xi needs an Xj, the parent of
\* the group has no job, and D needs exactly X1..Xn.
C2_FanOutFanIn ==
    (Converted /\ DistinctSlugs /\ ParentsApart) =>
        \A i \in 1..Len(src.items) :
            SeqGroupSeq(i) =>
                LET a == FirstLeaf(i)
                    xs == LeafIdx(i + 1)
                    d == FirstLeaf(i + 2)
                IN /\ \A x \in xs :
                        /\ IsJobOfLeaf(x)
                        /\ NeedsOfLeaf(x) = <<Slug(Leaves[a])>>
                        /\ \A y \in xs : Slug(Leaves[y]) \notin SetOf(NeedsOfLeaf(x))
                   /\ Slug(src.items[i + 1].leaf) \notin JobIds
                   /\ IsJobOfLeaf(d)
                   /\ Jobs[Slug(Leaves[d])].origin = d =>
                        /\ SetOf(NeedsOfLeaf(d)) = {Slug(Leaves[x]) : x \in xs}
                        /\ Len(NeedsOfLeaf(d)) = Cardinality(xs)

\* a stage, a group of two and a stage have been converted
C2_Witness ==
    /\ pc = "done"
    /\ DistinctSlugs /\ ParentsApart
    /\ SeqGroupSeq(1)
    /\ Len(src.items[2].kids) = 2
    /\ Len(NeedsOfLeaf(4)) = 2
    /\ NeedsOfLeaf(2) = <<Slug(Leaves[1])>>

--------------------------------------------------------------------------
(* C3 *)

\* C3: any two distinct leaf stages of a pipeline have distinct job identifiers in
\* the job map, so the job of every leaf is in the map, also when names or slugs
\* are equal.
C3_DistinctJobIds ==
    Converted =>
        \A i \in 1..Len(Leaves) :
            HasJobOf(i) \/ (Emitted /\ Slug(Leaves[i]) = PipelinePostId)

--------------------------------------------------------------------------
(* C4 *)

NeedsIn(k) == SetOf(Jobs[k].needs) \cap JobIds

RECURSIVE ReachFrom(_, _)
ReachFrom(frontier, seen) ==
    LET new == UNION {NeedsIn(k) : k \in frontier} \ seen IN
    IF new = {} THEN seen ELSE ReachFrom(new, seen \cup new)

\* the jobs job k depends on, directly or not
Ancestors(k) == ReachFrom({k}, {})

\* C4: the needs relation of the job map is acyclic for every input, repeated
\* stage names and a stage with the slug pipeline-post included.
C4_Acyclic ==
    Converted => \A k \in JobIds : k \notin Ancestors(k)

--------------------------------------------------------------------------
(* C5 *)

\* the jobs completed immediately before top-level stage i is entered
CompletedBefore(i) ==
    IF i = 1 THEN {} ELSE {Slug(Leaves[l]) : l \in LeafIdx(i - 1)}

\* C5: every child of a parallel group needs the full set of jobs completed
\* immediately before the group; after another group, every job of that group.
C5_GroupNeedsAllPredecessors ==
    (Converted /\ DistinctSlugs /\ ParentsApart) =>
        \A i \in 1..Len(src.items) :
            IsGroup(src.items[i]) =>
                \A x \in LeafIdx(i) :
                    Jobs[Slug(Leaves[x])].origin = x =>
                        SetOf(NeedsOfLeaf(x)) = CompletedBefore(i)

--------------------------------------------------------------------------
(* C6 *)

\* the conversion raised: main failed before the stage loop ran
ConversionRaised == pc = "failed" /\ ConvertRaises(text)

\* C6: without a pipeline block or without a stages block the conversion raises
\* before anything is written and main exits with failure; no other input makes
\* the conversion raise.  (A truncated file has no complete pipeline block.)
C6_OnlyStructuralAbsencesRaise ==
    /\ (~src.declarative \/ ~src.stages) => (~Converted /\ writes = <<>>)
    /\ ConversionRaised => (writes = <<>> /\ exit_code = 1)
    /\ ConversionRaised => (~src.declarative \/ ~src.stages \/ src.cut > 0)

--------------------------------------------------------------------------
(* C7 *)

\* stage jobs no other job lists in its needs
LeafJobs ==
    {k \in JobIds : /\ Jobs[k].origin # 0
                    /\ \A j \in JobIds : Jobs[j].origin # 0 => k \notin SetOf(Jobs[j].needs)}

\* C7: with pipeline-level post hooks, the job map holds the job pipeline-post,
\* guarded by always(), needing every stage job no other job needs, whatever the
\* stages contain.
C7_PipelinePostJob ==
    (Emitted /\ HasPipelineHooks) =>
        /\ PipelinePostId \in JobIds
        /\ Jobs[PipelinePostId].origin = 0
        /\ Jobs[PipelinePostId].cond = "always()"
        /\ LeafJobs \subseteq SetOf(Jobs[PipelinePostId].needs)

--------------------------------------------------------------------------
(* C8 *)

\* the environment a block declares by its lines  k = 'v'
DeclaredEnv(pairs) == DictOfPairs(pairs, Len(pairs)).val

\* the stage's pairs that are absent from the global environment or differ from it
EnvDiff(stage, global) ==
    LET keep == {k \in DOMAIN stage : k \notin DOMAIN global \/ global[k] # stage[k]}
    IN [k \in keep |-> stage[k]]

\* C8: the env map of every stage job is the environment its stage declares,
\* restricted to the keys the environment of the pipeline block lacks or gives
\* another value.
C8_JobEnvIsDiff ==
    Converted =>
        \A i \in 1..Len(Leaves) :
            \A k \in JobIds :
                Jobs[k].origin = i =>
                    Jobs[k].env.val = EnvDiff(DeclaredEnv(Leaves[i].env), DeclaredEnv(src.env))

--------------------------------------------------------------------------
(* C9 *)

\* the agent a directive denotes; no directive and an unrecognized type denote none
AgentAsWritten(kind, where) ==
    CASE kind = "any" -> [NoAgent EXCEPT !.type = "any"]
      [] kind = "label" -> [NoAgent EXCEPT !.type = "label", !.label = AgentLabel(where)]
      [] kind = "docker" -> [NoAgent EXCEPT !.type = "docker",
                                            !.image = Join(AgentImage(where)),
                                            !.args = Join(AgentArgs(where))]
      [] OTHER -> NoAgent

\* C9: a stage without a recognized agent gets the run target and the container
\* of the pipeline's agent; a stage with agent any, label or docker gets the run
\* target and the container of its own agent and no container of the pipeline.
C9_AgentFallbackAndOverride ==
    Converted =>
        \A i \in 1..Len(Leaves) :
            \A k \in JobIds :
                Jobs[k].origin = i =>
                    LET own == AgentAsWritten(Leaves[i].agent, "S")
                        global == AgentAsWritten(src.agent, "P")
                        used == IF own = NoAgent THEN global ELSE own
                    IN /\ Jobs[k].runs_on = default_runs_on(used)
                       /\ Jobs[k].container = default_container(used)

--------------------------------------------------------------------------
(* C10 *)

\* the bundle of entry i of stages_info
BundleOf(i) ==
    generate_composite_action(stages_info[i].name, stages_info[i].commands,
                              stages_info[i].env, stages_info[i].agent, stages_info[i].post)

\* C10: in the emitted workflow the composite step of every stage job names the
\* stage the job was built from and uses the directory of that stage's bundle,
\* which holds that stage's bundle, also when stages share a name or a slug.
C10_JobReferencesOwnBundle ==
    Emitted =>
        \A k \in JobIds :
            Jobs[k].origin # 0 =>
                LET i == Jobs[k].origin
                    step == Jobs[k].steps[Len(Jobs[k].steps)]
                IN /\ step.name = "Run " \o Join(stages_info[i].name)
                   /\ step.uses = ActionPath(stages_info[i].name)
                   /\ files[ActionFile(stages_info[i].name)] = BundleOf(i)

--------------------------------------------------------------------------
(* C11 *)

\* the steps of a bundle that run a command of the stage: they carry no guard
C11_IsCommandStep(step) == step.cond = "" /\ step.uses = ""

\* C11: the bundle of every stage holds one run step per entry of the stage's
\* command list, in the list's order, with the command as its text, before every
\* post-hook step; the bundle of a stage whose steps are  sh 'make'  holds one
\* command step, with the text make.
C11_OneStepPerCommand ==
    Converted =>
        /\ \A i \in 1..Len(stages_info) :
              \A steps \in {BundleOf(i).steps} :
                  LET commands == stages_info[i].commands
                  IN /\ Len(steps) >= Len(commands)
                     /\ \A k \in 1..Len(steps) :
                           IF k <= Len(commands)
                           THEN C11_IsCommandStep(steps[k]) /\ steps[k].run = commands[k]
                           ELSE ~C11_IsCommandStep(steps[k])
        /\ \A i \in 1..Len(Leaves) :
              Leaves[i].cmd = <<"make">> =>
                  /\ i <= Len(stages_info)
                  /\ stages_info[i].name = Leaves[i].name
                  /\ \A own \in {SelectSeq(BundleOf(i).steps, C11_IsCommandStep)} :
                        Len(own) = 1 /\ own[1].run = "make"
                                     /\ own[1].name = "Run command 1"

\* the bundle of a stage  sh 'make'  with a post hook has been written: the command
\* step, then the hook
C11_Witness ==
    /\ pc = "done"
    /\ \E i \in 1..Len(Leaves) :
          /\ Leaves[i].cmd = <<"make">>
          /\ Leaves[i].post = "echo"
          /\ LET steps == files[ActionFile(Leaves[i].name)].steps
             IN /\ Len(steps) = 2
                /\ steps[1].run = "make"
                /\ steps[2].cond = "always()"

--------------------------------------------------------------------------
(* C12 *)

\* the commands one statement stands for, taken on its own
C12_StmtCommands(st) ==
    IF st.q = 3 THEN multiline_to_commands(st.v)
    ELSE <<(IF st.kw = "echo" THEN "echo " ELSE "") \o Join(Strip(st.v))>>

\* the commands of a leaf's statements, statement after statement as written
C12_InSourceOrder(lf) ==
    Concat([k \in 1..Len(StatementsOf(lf)) |-> C12_StmtCommands(StatementsOf(lf)[k])])

\* C12: the command list extracted for a stage lists the commands of the stage's
\* statements in the order the statements appear in the source, each statement
\* contributing its own commands and no more: a single-line sh before a
\* triple-quoted sh, or an echo before an sh, comes first.
C12_CommandsInSourceOrder ==
    Converted =>
        \A i \in 1..Len(Leaves) :
            /\ i <= Len(stages_info)
            /\ stages_info[i].commands = C12_InSourceOrder(Leaves[i])

--------------------------------------------------------------------------
(* C13 *)

\* the steps of a bundle guarded by the condition of an outcome kind
C13_Guarded(steps, kind) == SelectSeq(steps, LAMBDA st : st.cond = kind \o "()")

\* C13: for every outcome kind among always, success, failure and cleanup that the
\* post block of a stage holds with an archive directive or commands, the bundle of
\* the stage holds the steps of that kind, each guarded by the kind's condition:
\* one artifact-publishing step for the archive, then one run step per command.
C13_EveryPostKindEmitted ==
    Converted =>
        \A i \in 1..Len(stages_info) :
            \A kind \in DOMAIN stages_info[i].post :
                LET pdata == stages_info[i].post[kind]
                    own == C13_Guarded(BundleOf(i).steps, kind)
                    n == Len(pdata.archive)
                IN (pdata.archive # <<>> \/ pdata.commands # <<>>) =>
                      /\ Len(own) = n + Len(pdata.commands)
                      /\ n = 1 => /\ own[1].uses = "actions/upload-artifact@v4"
                                  /\ own[1].with.val["path"] = pdata.archive[1]
                      /\ \A k \in 1..Len(pdata.commands) :
                            own[n + k].run = pdata.commands[k]

--------------------------------------------------------------------------
(* C14 *)

\* the cron expressions of the schedule trigger of a workflow document
C14_Schedule(doc) ==
    IF "schedule" \in SetOf(doc.on.keys) THEN doc.on.val["schedule"] ELSE <<>>

\* C14: when the pipeline declares  triggers { cron('<expr>') }  the triggers of the
\* emitted workflow hold a schedule carrying <expr>; when it declares none they hold
\* no schedule; at most one cron expression is carried.
C14_CronBecomesSchedule ==
    Emitted =>
        LET doc == gha IN
        /\ src.cron # <<>> => /\ "schedule" \in SetOf(doc.on.keys)
                              /\ C14_Schedule(doc) = src.cron
        /\ src.cron = <<>> => "schedule" \notin SetOf(doc.on.keys)
        /\ Len(C14_Schedule(doc)) <= 1

--------------------------------------------------------------------------
(* C15 *)

\* the keywords find_block is called with
C15_Keywords ==
    {"pipeline", "stages", "steps", "post", "agent", "environment", "parameters",
     "parallel", "when", "docker", "kubernetes", "always", "success", "failure",
     "cleanup"}

\* the texts the next step of the conversion calls find_block on, each with the
\* keywords looked for in it: the document without its comments, searched for
\* the pipeline block alone (line 420); the body of the pipeline block; then the
\* body of the stage the loop has reached and the bodies of the children of its
\* parallel group
C15_Zones ==
    CASE pc = "start" ->
            {[z |-> strip_comments(text), kws |-> {"pipeline"}]}
            \cup (IF Found(PipelineSpan(text))
                  THEN {[z |-> PipelineBody(text), kws |-> C15_Keywords]} ELSE {})
      [] pc = "stages" ->
            {[z |-> Head(stages_list).content, kws |-> C15_Keywords]}
            \cup {[z |-> extract_parallel(Head(stages_list).content)[j].content,
                   kws |-> C15_Keywords] :
                    j \in 1..Len(extract_parallel(Head(stages_list).content))}
      [] OTHER -> {}

\* opening braces less closing braces among the tokens a..b of z
C15_Balance(z, a, b) ==
    Cardinality({j \in a..b : z[j].t = "{"}) - Cardinality({j \in a..b : z[j].t = "}"})

\* position s of z holds the brace that follows the first occurrence of kw in z
C15_OpensFirstOccurrence(z, kw, s) ==
    /\ s >= 2
    /\ HasWord(z[s - 1], kw)
    /\ z[s - 1].t = "w"
    /\ \A j \in 1..(s - 2) : ~HasWord(z[j], kw)

\* C15: a span (s, e) that find_block returns as found has "{" at position s - 1
\* and "}" at position e, s <= e, and the text from s up to e has as many "{" as "}"
\* with no prefix holding more "}" than "{" (a prefix that does ends with "}");
\* when the keyword is absent or its opening brace is never balanced find_block
\* returns (-1, -1).
C15_SpanIsBalancedBlock ==
    \A zone \in C15_Zones : \A z \in {zone.z} : \A kw \in zone.kws :
        \A span \in {find_block(z, kw)} :
            /\ ~Found(span) => span = NotFound
            /\ Found(span) =>
                  \A s \in {span[1]} : \A e \in {span[2]} :
                      /\ 1 <= s /\ s <= e /\ e < Len(z)
                      /\ C15_OpensFirstOccurrence(z, kw, s)
                      /\ z[s].t = "{"
                      /\ z[e + 1].t = "}"
                      /\ C15_Balance(z, s + 1, e) = 0
                      /\ \A j \in (s + 1)..e :
                            z[j].t = "}" => C15_Balance(z, s + 1, j) >= 0

\* the conversion has read a pipeline block whose body holds nested blocks, and a
\* stage body whose steps block it finds
C15_Witness ==
    /\ pc = "stages"
    /\ Found(PipelineSpan(text))
    /\ C15_Balance(PipelineBody(text), 1, Len(PipelineBody(text))) = 0
    /\ \E j \in 1..Len(PipelineBody(text)) : PipelineBody(text)[j].t = "{"
    /\ Found(find_block(Head(stages_list).content, "steps"))

--------------------------------------------------------------------------
(* C16 *)

\* C16: when the pipeline block has no agent directive of its own, the global agent
\* is empty and the job of every stage without an agent directive runs on
\* ubuntu-latest without a container, whatever agents other stages declare.
C16_NoPipelineAgentMeansDefault ==
    (Converted /\ src.agent = "none") =>
        /\ global_agent = NoAgent
        /\ \A i \in 1..Len(Leaves) :
              \A k \in JobIds :
                  (Jobs[k].origin = i /\ Leaves[i].agent = "none") =>
                      /\ Jobs[k].runs_on = UbuntuLatest
                      /\ Jobs[k].container = <<>>

--------------------------------------------------------------------------
(* C17 *)

\* C17: for every key K of a stage's environment the bundle of the stage declares
\* an input of its own for K whose default is K's value in that stage; two keys of
\* one stage never share an input, keys that differ in letter case included: the
\* bundle declares as many inputs as the stage's environment has keys.
C17_OneInputPerEnvKey ==
    Converted =>
        \A i \in 1..Len(stages_info) :
            LET env == stages_info[i].env
                inputs == BundleOf(i).inputs
            IN /\ Len(inputs.keys) = Len(env.keys)
               /\ \A K \in SetOf(env.keys) :
                     \E n \in SetOf(inputs.keys) :
                         /\ inputs.val[n].description = "Environment variable " \o K
                         /\ inputs.val[n].default = env.val[K]

--------------------------------------------------------------------------
(* C18 *)

\* the lines main prints about its own progress and about a failure
C18_ProgressLines ==
    {"Converting", "Main workflow saved to", "Composite actions saved to",
     "Generated files", "Error"}

\* the names of the declarations of the parameters block that carry one
C18_Named ==
    {src.decls[k][2] : k \in {j \in 1..Len(src.decls) : src.decls[j][2] # ""}}

\* C18: a parameter declaration of a supported kind without a name does not make
\* the conversion fail and yields no workflow input, every declaration of the block
\* that carries a name still yields its input, and a diagnostic about the dropped
\* declaration is printed.
C18_NamelessParameterDropped ==
    (pc # "start" /\ src.declarative /\ src.stages /\ src.cut = 0 /\ src.param = ""
       /\ \E k \in 1..Len(src.decls) : src.decls[k][2] = "") =>
        /\ ~ConversionRaised
        /\ SetOf(gha.inputs.keys) = C18_Named
        /\ \E n \in 1..Len(stdout) : stdout[n].k \notin C18_ProgressLines

--------------------------------------------------------------------------
(* C19 *)

\* C19: when a child of a parallel group holds a parallel group of its own, every
\* innermost stage becomes a job of its own that carries its own commands, and the
\* child that holds the nested group yields no job and carries no commands.
C19_NestedParallelDecomposed ==
    Converted =>
        \A a \in 1..Len(src.items) :
            LET it == src.items[a] IN
            it.inner # <<>> =>
                /\ \A n \in 1..Len(it.inner) :
                      \E i \in 1..Len(stages_info) :
                          /\ stages_info[i].name = it.inner[n].name
                          /\ stages_info[i].commands = <<Join(it.inner[n].cmd)>>
                          /\ Slug(it.inner[n]) \in JobIds
                          /\ Jobs[Slug(it.inner[n])].origin = i
                /\ Slug(it.kids[1]) \notin JobIds
                /\ \A i \in 1..Len(stages_info) :
                      stages_info[i].name = it.kids[1].name =>
                          stages_info[i].commands = <<>>

--------------------------------------------------------------------------
(* C20 *)

\* C20: at every point of the conversion and in the emitted workflow, every job id
\* in the needs of a job, the pipeline-post job included, is a key of the job map.
C20_NoDanglingNeeds ==
    \A k \in JobIds : \A n \in 1..Len(Jobs[k].needs) : Jobs[k].needs[n] \in JobIds

\* the workflow has been written with a job that needs the children of a group and
\* a pipeline-post job that needs every other job
C20_Witness ==
    /\ pc = "done"
    /\ \E k \in JobIds : Jobs[k].origin # 0 /\ Len(Jobs[k].needs) = 2
    /\ PipelinePostId \in JobIds
    /\ Jobs[PipelinePostId].origin = 0
    /\ Len(Jobs[PipelinePostId].needs) >= 3

--------------------------------------------------------------------------
(* C21 *)

\* the pipeline block carries a post block of its own
C21_PipelineDeclaresPost == src.declarative /\ src.post # "none"

\* the hooks of the post block written at pipeline level
C21_PipelineHooks == extract_post_body(PostTokens(src.post, "bye"))

\* the synthetic terminal job is in the job map
C21_HasTerminalJob == PipelinePostId \in JobIds /\ Jobs[PipelinePostId].origin = 0

\* C21: the job pipeline-post exists only when the pipeline block has a post
\* block of its own, and its steps are the checkout followed by the steps of the
\* hooks of that block alone: a post block of a stage neither creates the job nor
\* contributes a step to it.
C21_TerminalJobFromPipelinePostOnly ==
    (Emitted /\ C21_HasTerminalJob) =>
        /\ C21_PipelineDeclaresPost
        /\ Jobs[PipelinePostId].steps = <<Checkout>> \o PostJobSteps(C21_PipelineHooks, 1)

--------------------------------------------------------------------------
(* C22 *)

\* C22: the env map of the workflow holds exactly the pairs of the environment
\* block written directly in the pipeline block; when the pipeline block has
\* none, the workflow has no env and the job of a stage keeps every pair of the
\* environment block of its stage.
C22_WorkflowEnvIsPipelineEnv ==
    Converted =>
        /\ gha.env.val = DeclaredEnv(src.env)
        /\ src.env = <<>> =>
             /\ gha.env = EmptyDict
             /\ \A i \in 1..Len(Leaves) :
                    \A k \in JobIds :
                        Jobs[k].origin = i => Jobs[k].env.val = DeclaredEnv(Leaves[i].env)

--------------------------------------------------------------------------
(* C23 *)

\* the environment keys the pipeline as written declares anywhere
C23_Keys ==
    DOMAIN DeclaredEnv(src.env)
    \cup UNION {DOMAIN DeclaredEnv(Leaves[i].env) : i \in 1..Len(Leaves)}

\* the composite step of a job hands the value of environment key K to the bundle
C23_Passes(job, K) ==
    \E ik \in DOMAIN job.steps[Len(job.steps)].with.val :
        job.steps[Len(job.steps)].with.val[ik] = "${{ env." \o K \o " }}"

\* to the steps of a job K has value v: the env of the job comes before the env
\* of the workflow
C23_Defines(job, K, v) ==
    IF Has(job.env, K) THEN job.env.val[K] = v
    ELSE Has(gha.env, K) /\ gha.env.val[K] = v

\* C23: in the emitted workflow every environment key a stage job passes to its
\* bundle as ${{ env.K }} is declared by the job's stage and is defined, in the
\* env of the job or else in the env of the workflow, with the value the stage
\* declares; so is every key of the stage that the job's env lacks.
C23_PassedKeysDefined ==
    Emitted =>
        \A k \in JobIds :
            Jobs[k].origin # 0 =>
                \A decl \in {DeclaredEnv(Leaves[Jobs[k].origin].env)} :
                    \A K \in C23_Keys :
                        /\ C23_Passes(Jobs[k], K) =>
                              (K \in DOMAIN decl /\ C23_Defines(Jobs[k], K, decl[K]))
                        /\ (K \in DOMAIN decl /\ ~Has(Jobs[k].env, K)) =>
                              (Has(gha.env, K) /\ gha.env.val[K] = decl[K])

--------------------------------------------------------------------------
(* C24 *)

\* the bundle documents of the stages of the pipeline as written, in document order
C24_BundleFiles ==
    LET leaves == Leaves IN [i \in 1..Len(leaves) |-> ActionFile(leaves[i].name)]

C24_IsPrefix(a, b) == Len(a) <= Len(b) /\ a = SubSeq(b, 1, Len(a))

C24_WorkflowWritten == WorkflowFile \in SetOf(writes)

\* C24: at every point of a run of main() the documents written so far are a
\* prefix of the bundle documents of the stages in document order followed by
\* ci.yml: ci.yml is written last, after the bundle of every stage; and a run
\* in which the conversion or a write raised has not written ci.yml and exits
\* with status 1.
C24_WorkflowWrittenLast ==
    /\ writes # <<>> =>
         \A expected \in {C24_BundleFiles \o <<WorkflowFile>>} :
             C24_IsPrefix(writes, expected)
    /\ pc = "failed" =>
         /\ ~C24_WorkflowWritten
         /\ WorkflowFile \notin DOMAIN files
         /\ exit_code = 1
    /\ C24_WorkflowWritten => pc = "done"

\* a pipeline of two stages or more has been converted: the bundles were written
\* one after the other and ci.yml after them
C24_Witness ==
    /\ pc = "done"
    /\ exit_code = 0
    /\ Len(writes) >= 3
    /\ writes[1] # writes[2]
    /\ writes[Len(writes)] = WorkflowFile

====
